---- MODULE Spec2Model ----
(***************************************************************************)
(* A model of tap_facebook/__init__.py: the watermark store (State), the   *)
(* window generator (AdsInsights.job_params), the job poller               *)
(* (AdsInsights.run_job), the record validator (transform_fields) and the  *)
(* insights stream iteration (AdsInsights.__iter__ driven by do_sync).     *)
(*                                                                         *)
(* Time.  An instant (a pendulum datetime) is an integer number of ticks,  *)
(* TicksPerDay ticks to a day, all in UTC.  A date string "YYYY-MM-DD" is  *)
(* the integer day number it names.  pendulum.parse of a date string is    *)
(* midnight of that day (ParseDate); to_date_string drops the time of day  *)
(* (ToDateString).  A date-time string, such as the configured start_date, *)
(* is a record [day, tod].                                                 *)
(***************************************************************************)
EXTENDS Integers, Sequences, FiniteSets, TLC

VARIABLES
    \* ---- State (the watermark store) ----
    start_date,      \* State.start_date, an instant
    state,           \* State.state, a dict stream name -> instant
    snapshot,        \* value of the StateMessage the last advance returned
    initial_get,     \* history: get(stream) right after construction
    advanced         \* history: the dates passed to advance, per stream

stateVars == <<start_date, state, snapshot, initial_get, advanced>>

VARIABLES
    \* ---- AdsInsights.job_params (the window generator) ----
    name,            \* self.name, the stream the generator belongs to
    now,             \* the instant pendulum.now() returns
    jp_pc,           \* "none", "created", "yielded" or "exhausted"
    since,           \* the local since, an instant
    until,           \* the local until, an instant
    windows          \* history: the time_ranges yielded so far

paramVars == <<name, now, jp_pc, since, until, windows>>

VARIABLES
    \* ---- AdsInsights.run_job (the job poller) ----
    job_pc,          \* "none", "loop" (at the while test), "returned", "raised"
    clock,           \* what time.time() returns, in seconds
    time_start,      \* the local time_start
    duration,        \* the local duration of the last poll
    status,          \* the local status: None or the async_status last read
    percent_complete,\* the async_percent_completion last read
    error,           \* the exception that left the function, or NoError
    submitted        \* history: the get_insights calls made for the window at hand

jobVars == <<job_pc, clock, time_start, duration, status, percent_complete,
             error, submitted>>

VARIABLES
    \* ---- transform_fields (the record validator) ----
    tf_schema,       \* schema['schema']['properties'], as the calls leave it
    tf_row,          \* the raw record, a dict field name -> value
    tf_order,        \* the order in which the dict gives the properties
    tf_result,       \* what the last call returned or raised
    tf_calls,        \* history: the number of calls made
    tf_schema0       \* history: the properties before the first call

tfVars == <<tf_schema, tf_row, tf_order, tf_result, tf_calls, tf_schema0>>

VARIABLES
    \* ---- AdsInsights.__iter__ driven by do_sync ----
    it_pc,           \* "start", "run_job", "results", "raised" or "done"
    results,         \* what job.get_result() has still to give
    min_date_start_for_job,  \* the local of that name: NoneValue or a str
    out,             \* the messages do_sync has written, in order
    update_calls,    \* history: the calls of line 293, with their arguments
    drained          \* history: the windows whose result loop has ended

iterVars == <<it_pc, results, min_date_start_for_job, out, update_calls, drained>>

vars == <<stateVars, paramVars, jobVars, tfVars, iterVars>>

-----------------------------------------------------------------------------
(* Bounds *)

TicksPerDay == 2     \* resolution of the time of day
MaxDay == 3          \* date strings range over days 0..MaxDay
MaxNowDay == 5       \* pendulum.now() ranges over days 0..MaxNowDay
MaxStrLen == 2       \* raw strings have at most MaxStrLen characters
MaxTypes == 2        \* a schema entry lists at most MaxTypes types
MaxCalls == 2        \* transform_fields is called at most MaxCalls times
MaxRecords == 2      \* a job gives at most MaxRecords result records

Days == 0..MaxDay
DateTimes == [day : Days, tod : 0..(TicksPerDay - 1)]

\* keys of INSIGHTS_BREAKDOWNS (two of the four insights streams)
Streams == {"ads_insights", "ads_insights_country"}

None == "None"

\* no exception, and no StateMessage value yet
NoError == [class |-> None, message |-> None, seconds |-> 0]
NoSnapshot == [None |-> -1]

SetMax(S) == CHOOSE x \in S : \A y \in S : y <= x
SetMin(S) == CHOOSE x \in S : \A y \in S : x <= y

-----------------------------------------------------------------------------
(* pendulum *)

\* pendulum.parse("YYYY-MM-DD"): midnight of the day
ParseDate(d) == d * TicksPerDay

\* pendulum.parse of a date-time string
ParseDateTime(s) == s.day * TicksPerDay + s.tod

\* Pendulum.to_date_string(): the day of the instant
ToDateString(t) == t \div TicksPerDay

-----------------------------------------------------------------------------
(* class State *)

\* State.__init__(start_date, state): the parsed start date and the parsed
\* persisted entries (state None gives the empty dict)
State__init__(sd, persisted) ==
    /\ start_date = ParseDateTime(sd)
    /\ state = [k \in DOMAIN persisted |-> ParseDate(persisted[k])]

\* State._get(stream_name)
State__get(stream_name) ==
    IF stream_name \in DOMAIN state THEN state[stream_name] ELSE start_date

\* State.get(stream_name)
State_get(stream_name) == ToDateString(State__get(stream_name))

\* the same two on the next state
State__get_next(stream_name) ==
    IF stream_name \in DOMAIN state' THEN state'[stream_name] ELSE start_date'

State_get_next(stream_name) == ToDateString(State__get_next(stream_name))

\* a faulty guard, for comparison: the cursor is overwritten by any
\* different date
AdvancesAlways(date, cursor) == date # cursor

\* a faulty guard, for comparison: the comparison is turned round
AdvancesToEarlier(date, cursor) == date < cursor

\* the guard of State.advance: "date > self._get(stream_name)"
Advances(date, cursor) == date > cursor

\* the value of the StateMessage built from a dict
StateMessageValue(dict) == [k \in DOMAIN dict |-> ToDateString(dict[k])]

\* a faulty advance, for comparison: the dict is replaced by one that holds
\* the entry of stream_name alone
State_advanceAlone(stream_name, date) ==
    LET parsed == ParseDate(date) IN
    /\ state' = IF Advances(parsed, State__get(stream_name))
                THEN [k \in {stream_name} |-> parsed]
                ELSE state
    /\ snapshot' = StateMessageValue(state')
    /\ UNCHANGED start_date

\* State.advance(stream_name, date), the state update and the message returned
State_advance(stream_name, date) ==
    LET parsed == ParseDate(date) IN
    /\ state' = IF Advances(parsed, State__get(stream_name))
                THEN [k \in DOMAIN state \cup {stream_name} |->
                         IF k = stream_name THEN parsed ELSE state[k]]
                ELSE state
    /\ snapshot' = StateMessageValue(state')
    /\ UNCHANGED start_date

-----------------------------------------------------------------------------
(* SpecState: a State built from any start date and any persisted entries,  *)
(* then any sequence of advance calls.                                      *)

PersistedStates == UNION {[D -> Days] : D \in SUBSET Streams}

InitState ==
    /\ \E sd \in DateTimes, persisted \in PersistedStates :
          State__init__(sd, persisted)
    /\ snapshot = NoSnapshot
    /\ initial_get = [s \in Streams |-> State_get(s)]
    /\ advanced = [s \in Streams |-> {}]

\* a State built from the start date day 0 and no persisted entries
StateIdle ==
    /\ State__init__([day |-> 0, tod |-> 0], <<>>)
    /\ snapshot = NoSnapshot
    /\ initial_get = [s \in Streams |-> State_get(s)]
    /\ advanced = [s \in Streams |-> {}]

ParamsIdle ==
    /\ name = None
    /\ now = 0
    /\ jp_pc = "none"
    /\ since = 0
    /\ until = 0
    /\ windows = <<>>

JobIdle ==
    /\ job_pc = "none"
    /\ clock = 0
    /\ time_start = 0
    /\ duration = 0
    /\ status = None
    /\ percent_complete = 0
    /\ error = NoError
    /\ submitted = 0

\* the result of no call
NoException == [class |-> None, message |-> None, at |-> None, names_field |-> FALSE]
NoResult == [returned |-> FALSE, rtn |-> <<>>, exc |-> NoException]

TFIdle ==
    /\ tf_schema = <<>>
    /\ tf_row = <<>>
    /\ tf_order = <<>>
    /\ tf_result = NoResult
    /\ tf_calls = 0
    /\ tf_schema0 = <<>>

IterIdle ==
    /\ it_pc = "none"
    /\ results = <<>>
    /\ min_date_start_for_job = [t |-> "NoneType", s |-> <<>>, n |-> 0, e |-> 0]
    /\ out = <<>>
    /\ update_calls = <<>>
    /\ drained = {}

Advance ==
    \E s \in Streams, d \in Days :
       /\ State_advance(s, d)
       /\ advanced' = [advanced EXCEPT ![s] = @ \cup {d}]
       /\ UNCHANGED initial_get
       /\ UNCHANGED <<paramVars, jobVars, tfVars, iterVars>>

NextState == Advance

InitWatermark ==
    /\ InitState
    /\ ParamsIdle
    /\ JobIdle
    /\ TFIdle
    /\ IterIdle

SpecState == InitWatermark /\ [][NextState]_vars

\* C1: after any sequence of advance calls on a stream, in any order, get(stream)
\* is the maximum of the dates advanced and the initial cursor, and no step moves
\* the cursor of a stream backward.
C1_MonotonicWatermark ==
    /\ [](\A s \in Streams :
             State_get(s) = SetMax(advanced[s] \cup {initial_get[s]}))
    /\ [][\A s \in Streams : /\ State_get_next(s) >= State_get(s)
                             /\ State__get_next(s) >= State__get(s)]_vars

\* a cursor that started from the start date with a time of day, was advanced
\* past it and was then offered an earlier date
C1_Witness ==
    \E s \in Streams :
       /\ s \in DOMAIN state
       /\ start_date % TicksPerDay # 0
       /\ Cardinality(advanced[s]) >= 2
       /\ \E d \in advanced[s] : d < State_get(s)
       /\ State_get(s) > initial_get[s]

-----------------------------------------------------------------------------
(* AdsInsights.job_params *)

\* "since = until.subtract(days=28)"
LookbackDays == 28

\* "since.add(days=1)", "until.add(days=1)"
StepDays == 1

AddDays(t, n) == t + n * TicksPerDay

\* a faulty loop test, for comparison: the window ending now is left out
WindowDueStrict(u, n) == u < n

\* the loop test "until <= pendulum.now()"
WindowDue(u, n) == u <= n

\* the values of until and since at the loop test of the next resumption:
\* lines 236-237 on the first, lines 250-251 on every later one
JP_until == IF jp_pc = "created"
            THEN ParseDate(State_get(name))
            ELSE AddDays(until, StepDays)

JP_since == IF jp_pc = "created"
            THEN AddDays(JP_until, -LookbackDays)
            ELSE AddDays(since, StepDays)

\* the time_ranges entry of the parameters yielded
TimeRange(s, u) == [since |-> ToDateString(s), until |-> ToDateString(u)]

\* next() on the generator, the loop test passing: one window is yielded
JobParamsYield ==
    /\ jp_pc \in {"created", "yielded"}
    /\ WindowDue(JP_until, now)
    /\ until' = JP_until
    /\ since' = JP_since
    /\ windows' = Append(windows, TimeRange(since', until'))
    /\ jp_pc' = "yielded"

\* next() on the generator, the loop test failing: the generator is exhausted
JobParamsExhausted ==
    /\ jp_pc \in {"created", "yielded"}
    /\ ~WindowDue(JP_until, now)
    /\ until' = JP_until
    /\ since' = JP_since
    /\ jp_pc' = "exhausted"
    /\ UNCHANGED windows

-----------------------------------------------------------------------------
(* SpecParams: job_params of one stream drained with pendulum.now() frozen. *)

Instants == 0..(MaxNowDay * TicksPerDay + TicksPerDay - 1)

InitParams ==
    /\ InitState
    /\ name \in Streams
    /\ now \in Instants
    /\ jp_pc = "created"
    /\ since = 0
    /\ until = 0
    /\ windows = <<>>
    /\ JobIdle
    /\ TFIdle
    /\ IterIdle

ParamsYield ==
    JobParamsYield /\ UNCHANGED <<name, now, stateVars, jobVars, tfVars, iterVars>>

ParamsExhausted ==
    JobParamsExhausted /\ UNCHANGED <<name, now, stateVars, jobVars, tfVars, iterVars>>

NextParams == ParamsYield \/ ParamsExhausted

SpecParams == InitParams /\ [][NextParams]_vars

\* the day now() is frozen at, counted from the watermark the generator starts at
DayN == ToDateString(now) - State_get(name)

\* C6: with the watermark until0 and now() frozen N days later (N >= 0),
\* job_params yields exactly N+1 windows, N+1 being none when until0 is later
\* than now; each window spans 28 days, the first is [until0 - 28, until0] and
\* consecutive windows are one day apart.
C6_WindowCoverage ==
    /\ jp_pc = "exhausted" =>
          Len(windows) = (IF ParseDate(State_get(name)) > now THEN 0 ELSE DayN + 1)
    /\ \A i \in 1..Len(windows) :
          /\ windows[i].until - windows[i].since = 28
          /\ i = 1 => /\ windows[i].until = State_get(name)
                      /\ windows[i].since = State_get(name) - 28
          /\ i > 1 => /\ windows[i].since = windows[i-1].since + 1
                      /\ windows[i].until = windows[i-1].until + 1

\* a drained generator that yielded several windows, the last one ending on the
\* very instant now() returns
C6_Witness ==
    /\ jp_pc = "exhausted"
    /\ Len(windows) >= 3
    /\ ParseDate(windows[Len(windows)].until) = now

\* a drained generator whose watermark is later than now
C6_WitnessNone ==
    /\ jp_pc = "exhausted"
    /\ ParseDate(State_get(name)) > now
    /\ windows = <<>>

-----------------------------------------------------------------------------
(* AdsInsights.run_job *)

INSIGHTS_MAX_WAIT_TO_START_SECONDS == 5 * 60
INSIGHTS_MAX_WAIT_TO_FINISH_SECONDS == 30 * 60

\* "time.sleep(5)"
SleepSeconds == 5

JobCompleted == "Job Completed"

\* the async_status values a remote_read may report
Statuses == {"Job Not Started", "Job Running", JobCompleted}

\* the async_percent_completion values a remote_read may report
Percents == {0, 50, 100}

\* the clock time that passes from one sample of time.time() to the next: the
\* sleep itself, and the sleep with a delay on top of it
Elapses == {SleepSeconds, SleepSeconds + 1, 295, 1495}

\* the two exceptions run_job raises, both of the class Exception
DidNotStart ==
    [class |-> "Exception", message |-> "did not start",
     seconds |-> INSIGHTS_MAX_WAIT_TO_START_SECONDS]

DidNotComplete ==
    [class |-> "Exception", message |-> "did not complete",
     seconds |-> INSIGHTS_MAX_WAIT_TO_FINISH_SECONDS]

\* a faulty test, for comparison: the start deadline itself times out
StartTimedOutAtDeadline(d, pct) ==
    d >= INSIGHTS_MAX_WAIT_TO_START_SECONDS /\ pct = 0

\* a faulty test, for comparison: the start timeout forgets the clock
StartTimedOutNoClock(d, pct) == pct = 0

\* "duration > INSIGHTS_MAX_WAIT_TO_START_SECONDS and percent_complete == 0"
StartTimedOut(d, pct) ==
    d > INSIGHTS_MAX_WAIT_TO_START_SECONDS /\ pct = 0

\* a faulty test, for comparison: the status is tested the wrong way round
FinishTimedOutCompleted(d, st) ==
    d > INSIGHTS_MAX_WAIT_TO_FINISH_SECONDS /\ st = JobCompleted

\* "duration > INSIGHTS_MAX_WAIT_TO_FINISH_SECONDS and status != 'Job Completed'"
FinishTimedOut(d, st) ==
    d > INSIGHTS_MAX_WAIT_TO_FINISH_SECONDS /\ st # JobCompleted

\* a faulty run_job, for comparison: the finish timeout is caught and the job
\* is submitted again
AfterRaiseRetry(exc) == IF exc.message = "did not complete" THEN "none" ELSE "raised"

\* where run_job is once it has raised exc: run_job has no try statement, so
\* the exception leaves it and the call is over
AfterRaise(exc) == "raised"

\* lines 255-260: the job is submitted and the clock is read
RunJobSubmit ==
    /\ job_pc = "none"
    /\ submitted' = submitted + 1
    /\ status' = None
    /\ time_start' = clock
    /\ job_pc' = "loop"
    /\ UNCHANGED <<clock, duration, percent_complete, error>>

\* lines 261-267: the loop test passes, the clock is sampled and the job read
Poll(st, pct) ==
    /\ job_pc = "loop"
    /\ status # JobCompleted
    /\ duration' = clock - time_start
    /\ status' = st
    /\ percent_complete' = pct
    /\ UNCHANGED <<time_start, submitted>>

\* one iteration that ends at line 270
PollStartTimeout ==
    \E st \in Statuses, pct \in Percents :
       /\ Poll(st, pct)
       /\ StartTimedOut(duration', pct)
       /\ error' = DidNotStart
       /\ job_pc' = AfterRaise(error')
       /\ UNCHANGED clock

\* one iteration that ends at line 275
PollFinishTimeout ==
    \E st \in Statuses, pct \in Percents :
       /\ Poll(st, pct)
       /\ ~StartTimedOut(duration', pct)
       /\ FinishTimedOut(duration', st)
       /\ error' = DidNotComplete
       /\ job_pc' = AfterRaise(error')
       /\ UNCHANGED clock

\* one iteration that sleeps and goes round the loop again
PollSleep(elapses) ==
    \E st \in Statuses \ {JobCompleted}, pct \in Percents, e \in elapses :
       /\ Poll(st, pct)
       /\ ~StartTimedOut(duration', pct)
       /\ ~FinishTimedOut(duration', st)
       /\ clock' = clock + e
       /\ job_pc' = "loop"
       /\ UNCHANGED error

\* the last iteration: it sleeps, the loop test fails and line 279 returns job
PollReturn(elapses) ==
    \E pct \in Percents, e \in elapses :
       /\ Poll(JobCompleted, pct)
       /\ ~StartTimedOut(duration', pct)
       /\ ~FinishTimedOut(duration', JobCompleted)
       /\ clock' = clock + e
       /\ job_pc' = "returned"
       /\ UNCHANGED error

-----------------------------------------------------------------------------
(* SpecJob: one call of run_job, the remote job reporting any status and    *)
(* any percentage at every poll.                                            *)

InitJob ==
    /\ StateIdle
    /\ ParamsIdle
    /\ JobIdle
    /\ TFIdle
    /\ IterIdle

JobSubmit == RunJobSubmit /\ UNCHANGED <<stateVars, paramVars, tfVars, iterVars>>

JobStartTimeout == PollStartTimeout /\ UNCHANGED <<stateVars, paramVars, tfVars, iterVars>>

JobFinishTimeout == PollFinishTimeout /\ UNCHANGED <<stateVars, paramVars, tfVars, iterVars>>

JobSleep == PollSleep(Elapses) /\ UNCHANGED <<stateVars, paramVars, tfVars, iterVars>>

JobReturn == PollReturn(Elapses) /\ UNCHANGED <<stateVars, paramVars, tfVars, iterVars>>

NextJob ==
    \/ JobSubmit
    \/ JobStartTimeout
    \/ JobFinishTimeout
    \/ JobSleep
    \/ JobReturn

SpecJob == InitJob /\ [][NextJob]_vars

\* run_job is the one thread of the program: a step it can take, it takes
SpecJobFair == InitJob /\ [][NextJob]_vars /\ WF_vars(NextJob)

\* a poll has been taken
Polled == status # None

\* C4: a poll taken more than 300 s after submission that reads 0 percent ends in
\* the start timeout; a poll taken more than 1800 s after submission that reads
\* more than 0 percent and a status that is not completed ends in the finish
\* timeout; neither is raised at a poll taken at or before its deadline.
C4_TimeoutClassification ==
    /\ (Polled /\ duration > 300 /\ percent_complete = 0)
          => (job_pc = "raised" /\ error = DidNotStart)
    /\ (Polled /\ duration > 1800 /\ percent_complete > 0
               /\ status # JobCompleted)
          => (job_pc = "raised" /\ error = DidNotComplete)
    /\ error = DidNotStart => duration > 300
    /\ error = DidNotComplete => duration > 1800
    /\ job_pc = "raised" <=> error # NoError

\* a job stuck at 50 percent raised the finish timeout one second past the
\* deadline
C4_Witness ==
    /\ error = DidNotComplete
    /\ duration = 1801
    /\ percent_complete = 50

\* a job at 0 percent raised the start timeout one second past the deadline
C4_WitnessStart ==
    /\ error = DidNotStart
    /\ duration = 301

\* a job at 0 percent polled exactly at the start deadline went on polling
C4_WitnessDeadline ==
    /\ job_pc = "loop"
    /\ duration = 300
    /\ percent_complete = 0
    /\ clock > 300

\* C5: a poll taken no later than 300 s after submission that reads status
\* 'Job Completed' makes run_job return the job with no error, whatever was
\* read at that poll and before it.
C5_CompletedBeforeDeadlines ==
    (Polled /\ status = JobCompleted /\ duration <= 300)
       => (job_pc = "returned" /\ error = NoError)

\* a job read as completed, at 0 percent, exactly at the start deadline, after
\* earlier polls
C5_Witness ==
    /\ job_pc = "returned"
    /\ status = JobCompleted
    /\ percent_complete = 0
    /\ duration = 300

-----------------------------------------------------------------------------
(* Python values.  A value is a record [t, s, n, e]: t is the type; a str    *)
(* carries its characters in s; an int carries n; a float carries the        *)
(* decimal n / 10^e, e being as small as can be; a bool carries n, 0 or 1.   *)

PyStr(chars) == [t |-> "str", s |-> chars, n |-> 0, e |-> 0]
PyIntOf(i) == [t |-> "int", s |-> <<>>, n |-> i, e |-> 0]
PyFloatOf(m, x) == [t |-> "float", s |-> <<>>, n |-> m, e |-> x]
PyBoolOf(b) == [t |-> "bool", s |-> <<>>, n |-> IF b THEN 1 ELSE 0, e |-> 0]
NoneValue == [t |-> "NoneType", s |-> <<>>, n |-> 0, e |-> 0]

DigitValue ==
    [c \in {"0", "1", "2", "3", "4", "5", "6", "7", "8", "9"} |->
        CASE c = "0" -> 0 [] c = "1" -> 1 [] c = "2" -> 2 [] c = "3" -> 3
          [] c = "4" -> 4 [] c = "5" -> 5 [] c = "6" -> 6 [] c = "7" -> 7
          [] c = "8" -> 8 [] c = "9" -> 9]

IsDigits(chars) == \A i \in 1..Len(chars) : chars[i] \in DOMAIN DigitValue

RECURSIVE DigitsValue(_)
DigitsValue(chars) ==
    IF chars = <<>> THEN 0
    ELSE 10 * DigitsValue(SubSeq(chars, 1, Len(chars) - 1))
           + DigitValue[chars[Len(chars)]]

RECURSIVE Pow10(_)
Pow10(k) == IF k = 0 THEN 1 ELSE 10 * Pow10(k - 1)

\* the least e with the same value: 4.20 is 4.2, 4.0 is 4
RECURSIVE Normal(_, _)
Normal(m, x) ==
    IF x > 0 /\ m % 10 = 0 THEN Normal(m \div 10, x - 1) ELSE PyFloatOf(m, x)

\* a result of a call: a value, or the exception raised
Returns(v) == [ok |-> TRUE, value |-> v, class |-> None]
Raises(c) == [ok |-> FALSE, value |-> NoneValue, class |-> c]

\* bool(value)
PyBool(v) ==
    CASE v.t = "str" -> Returns(PyBoolOf(v.s # <<>>))
      [] v.t \in {"int", "float", "bool"} -> Returns(PyBoolOf(v.n # 0))
      [] OTHER -> Returns(PyBoolOf(FALSE))

\* int(value): the digits of a str, a float cut at the point
PyInt(v) ==
    CASE v.t = "str" ->
           IF v.s # <<>> /\ IsDigits(v.s)
           THEN Returns(PyIntOf(DigitsValue(v.s)))
           ELSE Raises("ValueError")
      [] v.t = "float" -> Returns(PyIntOf(v.n \div Pow10(v.e)))
      [] v.t \in {"int", "bool"} -> Returns(PyIntOf(v.n))
      [] OTHER -> Raises("TypeError")

\* where the decimal point of a str stands, 0 when it has none
PointAt(chars) ==
    IF \E i \in 1..Len(chars) : chars[i] = "."
    THEN CHOOSE i \in 1..Len(chars) :
            chars[i] = "." /\ \A j \in 1..(i - 1) : chars[j] # "."
    ELSE 0

\* float(value): digits, with at most one point among them
PyFloat(v) ==
    CASE v.t = "str" ->
           LET p == PointAt(v.s)
               whole == IF p = 0 THEN v.s ELSE SubSeq(v.s, 1, p - 1)
               frac == IF p = 0 THEN <<>> ELSE SubSeq(v.s, p + 1, Len(v.s))
           IN  IF IsDigits(whole) /\ IsDigits(frac) /\ whole \o frac # <<>>
               THEN Returns(Normal(DigitsValue(whole \o frac), Len(frac)))
               ELSE Raises("ValueError")
      [] v.t \in {"int", "bool"} -> Returns(PyFloatOf(v.n, 0))
      [] v.t = "float" -> Returns(v)
      [] OTHER -> Raises("TypeError")

-----------------------------------------------------------------------------
(* transform_field *)

DateTime == "date-time"

\* the five kinds of field type the schema language has
RecognizedTypes == {"string", "integer", "number", "boolean", "null"}

\* a faulty coercion, for comparison: the value is left as it came
TransformFieldRaw(value, field_type, field_format) == Returns(value)

\* transform_field(value, field_type, field_format)
transform_field(value, field_type, field_format) ==
    IF field_format = DateTime THEN Returns(value)
    ELSE CASE field_type = "boolean" -> PyBool(value)
           [] field_type = "integer" -> PyInt(value)
           [] field_type = "number" -> PyFloat(value)
           [] field_type = "string" -> Returns(value)
           [] OTHER -> Raises("ValueError")

-----------------------------------------------------------------------------
(* transform_fields.  A field schema is a record [has_type, is_list, type,   *)
(* format]: has_type tells whether the entry has the key "type", is_list     *)
(* whether its value is a list (type is then that list, and else the one     *)
(* type in a sequence of its own), format is the entry's "format" or None.   *)

Range(seq) == {seq[i] : i \in 1..Len(seq)}

\* list.remove(x): the list without the first x in it
RemoveFirst(seq, x) ==
    LET i == CHOOSE k \in 1..Len(seq) :
                seq[k] = x /\ \A j \in 1..(k - 1) : seq[j] # x
    IN  SubSeq(seq, 1, i - 1) \o SubSeq(seq, i + 1, Len(seq))

\* the exceptions that leave transform_fields.  The interpreter is python3
\* (line 1), whose exceptions have no attribute "message": line 85 raises the
\* AttributeError of that lookup as soon as one error has been collected.
MissingType(f) ==
    [class |-> "ValueError", message |-> "schema missing type",
     at |-> f, names_field |-> TRUE]

NotInRow(f) ==
    [class |-> "ValueError", message |-> "not in row and not null",
     at |-> f, names_field |-> TRUE]

DoesNotMatch(f) ==
    [class |-> "ValueError", message |-> "does not match schema",
     at |-> f, names_field |-> TRUE]

NoMessageAttribute(f) ==
    [class |-> "AttributeError", message |-> "object has no attribute 'message'",
     at |-> f, names_field |-> FALSE]

\* the argument row[field_name] and the call of line 79, inside the try
TryType(row, field_name, field_type, field_format) ==
    IF field_name \in DOMAIN row
    THEN transform_field(row[field_name], field_type, field_format)
    ELSE Raises("KeyError")

\* lines 76-87, from the i-th type on: the value set, or the exception raised
RECURSIVE TryTypes(_, _, _, _, _, _)
TryTypes(row, field_name, field_types, field_format, i, errors) ==
    IF i > Len(field_types)
    THEN [set |-> FALSE, value |-> NoneValue,
          exc |-> IF errors # <<>> THEN NoMessageAttribute(field_name)
                                   ELSE DoesNotMatch(field_name)]
    ELSE LET r == TryType(row, field_name, field_types[i], field_format)
         IN  IF r.ok
             THEN [set |-> TRUE, value |-> r.value, exc |-> NoException]
             ELSE TryTypes(row, field_name, field_types, field_format, i + 1,
                           Append(errors, r.class))

\* the field schema after lines 66-71: a listed "null" is removed from the
\* list the schema holds
AfterNullRemoved(field_schema) ==
    IF field_schema.has_type /\ field_schema.is_list
         /\ "null" \in Range(field_schema.type)
    THEN [field_schema EXCEPT !.type = RemoveFirst(@, "null")]
    ELSE field_schema

\* lines 63-87 for one field
TransformOne(row, field_name, field_schema) ==
    IF ~field_schema.has_type
    THEN [set |-> FALSE, value |-> NoneValue, exc |-> MissingType(field_name)]
    ELSE LET nullable == "null" \in Range(field_schema.type)
             field_types == IF nullable
                            THEN RemoveFirst(field_schema.type, "null")
                            ELSE field_schema.type
         IN  IF ~nullable /\ field_name \notin DOMAIN row
             THEN [set |-> FALSE, value |-> NoneValue,
                   exc |-> NotInRow(field_name)]
             ELSE TryTypes(row, field_name, field_types, field_schema.format,
                           1, <<>>)

\* the loop of line 62 from the i-th property on
RECURSIVE TransformFrom(_, _, _, _, _)
TransformFrom(row, schema, order, i, rtn) ==
    IF i > Len(order)
    THEN [result |-> [returned |-> TRUE, rtn |-> rtn, exc |-> NoException],
          schema |-> schema]
    ELSE LET f == order[i]
             one == TransformOne(row, f, schema[f])
             left == [schema EXCEPT ![f] = AfterNullRemoved(@)]
         IN  IF one.set
             THEN TransformFrom(row, left, order, i + 1,
                                [k \in DOMAIN rtn \cup {f} |->
                                    IF k = f THEN one.value ELSE rtn[k]])
             ELSE [result |-> [returned |-> FALSE, rtn |-> <<>>, exc |-> one.exc],
                   schema |-> left]

\* transform_fields(row, schema): what it returns or raises, and the schema
\* it leaves
transform_fields(row, schema, order) == TransformFrom(row, schema, order, 1, <<>>)

-----------------------------------------------------------------------------
(* SpecTF: transform_fields called on one row and one schema object, again   *)
(* and again.  The schema declares two fields; the first draws its entry and *)
(* its raw value from the full sets, the second from a few.                  *)

FieldTypes == RecognizedTypes \cup {"object"}

Alphabet == {"4", "2", "a", "."}

Strings == UNION {[1..n -> Alphabet] : n \in 0..MaxStrLen}

RawValues ==
    {PyStr(c) : c \in Strings}
      \cup {PyIntOf(0), PyIntOf(42), PyFloatOf(42, 1), PyBoolOf(TRUE),
            PyBoolOf(FALSE), NoneValue}

\* the type lists of a schema entry: no type twice
TypeLists ==
    {l \in UNION {[1..n -> FieldTypes] : n \in 1..MaxTypes} :
        \A i, j \in 1..Len(l) : i # j => l[i] # l[j]}

FieldSchemas ==
    {[has_type |-> FALSE, is_list |-> FALSE, type |-> <<>>, format |-> None]}
      \cup [has_type : {TRUE}, is_list : {TRUE}, type : TypeLists,
            format : {None, DateTime}]
      \cup [has_type : {TRUE}, is_list : {FALSE},
            type : {<<t>> : t \in FieldTypes}, format : {None, DateTime}]

FewFieldSchemas ==
    {[has_type |-> TRUE, is_list |-> TRUE, type |-> <<"string">>,
      format |-> None],
     [has_type |-> TRUE, is_list |-> TRUE, type |-> <<"null", "integer">>,
      format |-> None]}

FewRawValues == {PyStr(<<"4">>)}

FieldNames == {"impressions", "date_start"}

RawValuesOf(f) == IF f = "impressions" THEN RawValues ELSE FewRawValues

FieldSchemasOf(f) == IF f = "impressions" THEN FieldSchemas ELSE FewFieldSchemas

\* the rows: some of the fields, each with one of its raw values
Rows ==
    UNION {{d \in [K -> RawValues \cup FewRawValues] :
               \A k \in K : d[k] \in RawValuesOf(k)} : K \in SUBSET FieldNames}

\* the schemas: every field, with one of its entries
Schemas ==
    {d \in [FieldNames -> FieldSchemas \cup FewFieldSchemas] :
        \A k \in FieldNames : d[k] \in FieldSchemasOf(k)}

InitTF ==
    /\ StateIdle
    /\ ParamsIdle
    /\ JobIdle
    /\ IterIdle
    /\ tf_schema \in Schemas
    /\ tf_row \in Rows
    /\ tf_order \in {<<"impressions", "date_start">>,
                      <<"date_start", "impressions">>}
    /\ tf_result = NoResult
    /\ tf_calls = 0
    /\ tf_schema0 = tf_schema

\* one call transform_fields(row, schema)
TransformFields ==
    /\ tf_calls < MaxCalls
    /\ LET call == transform_fields(tf_row, tf_schema, tf_order) IN
          /\ tf_result' = call.result
          /\ tf_schema' = call.schema
    /\ tf_calls' = tf_calls + 1
    /\ UNCHANGED <<tf_row, tf_order, tf_schema0>>
    /\ UNCHANGED <<stateVars, paramVars, jobVars, iterVars>>

NextTF == TransformFields

SpecTF == InitTF /\ [][NextTF]_vars

\* the types a field was declared with, and whether null is among them
Declared(f) == tf_schema0[f].has_type
DeclaredTypes(f) == Range(tf_schema0[f].type)
Absent(f) == f \notin DOMAIN tf_row

\* the first call has been made, with the schema as it was declared
FirstCall == tf_calls = 1

\* C8: a declared field whose types include "null" and which the raw record
\* lacks does not make validation fail and gets no key in the output; a declared
\* field whose types do not include "null" and which the raw record lacks makes
\* validation fail.
C8_AbsentField ==
    FirstCall =>
       \A f \in FieldNames :
          /\ (Declared(f) /\ "null" \in DeclaredTypes(f) /\ Absent(f))
                => /\ tf_result.exc.at # f
                   /\ tf_result.returned => f \notin DOMAIN tf_result.rtn
          /\ (Declared(f) /\ "null" \notin DeclaredTypes(f) /\ Absent(f))
                => ~tf_result.returned

\* the half of C8 the code keeps: an absent field that is not nullable fails
C8_AbsentNotNullableFails ==
    FirstCall =>
       \A f \in FieldNames :
          (Declared(f) /\ "null" \notin DeclaredTypes(f) /\ Absent(f))
             => ~tf_result.returned

\* the listed types of a field other than "null", in the order listed
Candidates(f) == SelectSeq(tf_schema0[f].type, LAMBDA t : t # "null")

\* the places of the candidate types that coerce the raw value of the field
Coercing(f) ==
    {i \in 1..Len(Candidates(f)) :
        transform_field(tf_row[f], Candidates(f)[i], tf_schema0[f].format).ok}

\* the coercion of the raw value by the first candidate type that coerces it
FirstCoercion(f) ==
    transform_field(tf_row[f], Candidates(f)[SetMin(Coercing(f))],
                    tf_schema0[f].format).value

\* C9: for a present field, the output value is the coercion by the first listed
\* type that coerces it; when no listed type does, the call raises a validation
\* error that names the field, and returns no record.
C9_FirstSuccess ==
    FirstCall =>
       \A f \in FieldNames :
          (Declared(f) /\ ~Absent(f)) =>
             /\ Coercing(f) # {} =>
                   /\ tf_result.exc.at # f
                   /\ tf_result.returned =>
                         /\ f \in DOMAIN tf_result.rtn
                         /\ tf_result.rtn[f] = FirstCoercion(f)
             /\ Coercing(f) = {} =>
                   /\ ~tf_result.returned
                   /\ tf_result.exc.at = f =>
                         /\ tf_result.exc.class = "ValueError"
                         /\ tf_result.exc.names_field

\* the half of C9 the code keeps: the first type that coerces wins
C9_FirstSuccessValue ==
    FirstCall =>
       \A f \in FieldNames :
          (Declared(f) /\ ~Absent(f)) =>
             /\ Coercing(f) # {} =>
                   /\ tf_result.exc.at # f
                   /\ tf_result.returned =>
                         /\ f \in DOMAIN tf_result.rtn
                         /\ tf_result.rtn[f] = FirstCoercion(f)
             /\ Coercing(f) = {} => ~tf_result.returned

\* C10: a schema entry that lists a type outside the five recognized kinds makes
\* validation fail, whatever else it lists and whatever the raw value is.
C10_UnknownTypeFails ==
    FirstCall =>
       ((\E f \in FieldNames :
            Declared(f) /\ ~(DeclaredTypes(f) \subseteq RecognizedTypes))
          => ~tf_result.returned)

-----------------------------------------------------------------------------
(* AdsInsights.__iter__, its messages written by the loop of do_sync.        *)

\* the code of a character, for the order of str
CharCode ==
    [c \in DOMAIN DigitValue \cup {".", "-", "a"} |->
        CASE c = "." -> 46 [] c = "-" -> 45 [] c = "a" -> 97
          [] OTHER -> 48 + DigitValue[c]]

\* a < b on two str: the order of the dictionary
RECURSIVE StrLess(_, _)
StrLess(a, b) ==
    IF b = <<>> THEN FALSE
    ELSE IF a = <<>> THEN TRUE
    ELSE IF CharCode[Head(a)] # CharCode[Head(b)]
         THEN CharCode[Head(a)] < CharCode[Head(b)]
         ELSE StrLess(Tail(a), Tail(b))

\* "not value" on None or a str
Falsy(v) == v.t = "NoneType" \/ (v.t = "str" /\ v.s = <<>>)

\* the exception of line 293: class State defines no method update
NoUpdateMethod ==
    [class |-> "AttributeError", message |-> "'State' object has no attribute 'update'",
     seconds |-> 0]

\* lines 289-290: the least date_start met so far
MinDateStart(current, rec) ==
    IF Falsy(current) \/ StrLess(rec["date_start"].s, current.s)
    THEN rec["date_start"]
    ELSE current

\* singer.RecordMessage(stream, record), with the window it belongs to and
\* the mapping export_all_data() gave
RecordMessage(stream, record, w) ==
    [type |-> "RECORD", stream |-> stream, record |-> record, raw |-> record,
     window |-> w]

\* line 283: the generator gives the next window
IterNextWindow ==
    /\ it_pc = "start"
    /\ JobParamsYield
    /\ it_pc' = "run_job"
    /\ job_pc' = "none"
    /\ submitted' = 0
    /\ UNCHANGED <<clock, time_start, duration, status, percent_complete,
                   error>>
    /\ UNCHANGED <<results, min_date_start_for_job, out, update_calls, drained>>

\* line 283: the generator is exhausted and the iteration of the stream ends
IterExhausted ==
    /\ it_pc = "start"
    /\ JobParamsExhausted
    /\ it_pc' = "done"
    /\ UNCHANGED jobVars
    /\ UNCHANGED <<results, min_date_start_for_job, out, update_calls, drained>>

\* line 284: run_job returns; line 286; get_result() has result_records to give
IterJobReturned(result_records) ==
    /\ it_pc = "run_job"
    /\ job_pc' = "returned"
    /\ it_pc' = "results"
    /\ results' = result_records
    /\ min_date_start_for_job' = NoneValue
    /\ UNCHANGED <<out, update_calls, drained>>

\* line 284: run_job raises, and the exception leaves __iter__ and do_sync:
\* no try statement encloses the call, and the decorator of line 230 encloses
\* the call job_params(), which only creates the generator
IterJobRaised ==
    /\ it_pc = "run_job"
    /\ it_pc' = IF job_pc' = "raised" THEN "raised" ELSE "run_job"
    /\ UNCHANGED <<results, min_date_start_for_job, out, update_calls, drained>>

\* lines 287-292 for one result, and line 337 writing the message
IterRecord ==
    /\ it_pc = "results"
    /\ results # <<>>
    /\ LET rec == Head(results) IN
          /\ min_date_start_for_job' = MinDateStart(min_date_start_for_job, rec)
          /\ out' = Append(out, RecordMessage(name, rec, Len(windows)))
    /\ results' = Tail(results)
    /\ UNCHANGED <<it_pc, update_calls, drained>>
    /\ UNCHANGED jobVars

\* line 293, the results being drained: self.state.update is looked up and
\* the AttributeError leaves __iter__ and do_sync
IterUpdate ==
    /\ it_pc = "results"
    /\ results = <<>>
    /\ drained' = drained \cup {Len(windows)}
    /\ update_calls' = Append(update_calls,
                              [window |-> Len(windows), stream |-> name,
                               date |-> min_date_start_for_job])
    /\ error' = NoUpdateMethod
    /\ it_pc' = "raised"
    /\ UNCHANGED <<results, min_date_start_for_job, out>>
    /\ UNCHANGED <<job_pc, clock, time_start, duration, status,
                   percent_complete, submitted>>

-----------------------------------------------------------------------------
(* SpecSync: do_sync over one insights stream.  The schema of the stream is  *)
(* one of SyncSchemas; a result record has a date_start and a count that the *)
(* API gives as a str.                                                       *)

\* the properties load_schema may give: the count declared an integer, or a
\* string
SyncSchemas ==
    {[date_start |-> [has_type |-> TRUE, is_list |-> TRUE,
                      type |-> <<"null", "string">>, format |-> None],
      impressions |-> [has_type |-> TRUE, is_list |-> TRUE,
                       type |-> <<"null", t>>, format |-> None]] :
        t \in {"integer", "string"}}

SyncOrder == <<"date_start", "impressions">>

ResultRecords ==
    {[date_start |-> PyStr(<<d>>), impressions |-> PyStr(<<"4", "2">>)] :
        d \in {"1", "2"}}

ResultLists == UNION {[1..n -> ResultRecords] : n \in 0..MaxRecords}

\* the clock time that passes between two samples while a sync polls
SyncElapses == {1495}

\* the days a sync starts from and the instants it runs at: Days and Instants
\* moved on by the look-back, so that the since of a window is a day a record
\* can be dated at
SyncDays == {LookbackDays + d : d \in Days}
SyncDateTimes == [day : SyncDays, tod : 0..(TicksPerDay - 1)]
SyncInstants == {ParseDate(LookbackDays) + i : i \in Instants}

\* pendulum.now() once a job has been run: the same tick or the next one
LaterNow == {n \in {now, now + 1} : n \in SyncInstants}

\* the persisted entries a sync of one stream reads: none, or that stream's
PersistedFor(stream) == {<<>>} \cup [{stream} -> SyncDays]

InitSync ==
    /\ name \in Streams
    /\ \E sd \in SyncDateTimes, persisted \in PersistedFor(name) :
          State__init__(sd, persisted)
    /\ snapshot = NoSnapshot
    /\ initial_get = [s \in Streams |-> State_get(s)]
    /\ advanced = [s \in Streams |-> {}]
    /\ now \in SyncInstants
    /\ jp_pc = "created"
    /\ since = 0
    /\ until = 0
    /\ windows = <<>>
    /\ JobIdle
    /\ tf_schema \in SyncSchemas
    /\ tf_row = <<>>
    /\ tf_order = SyncOrder
    /\ tf_result = NoResult
    /\ tf_calls = 0
    /\ tf_schema0 = tf_schema
    /\ it_pc = "start"
    /\ results = <<>>
    /\ min_date_start_for_job = NoneValue
    /\ out = <<>>
    /\ update_calls = <<>>
    /\ drained = {}

SyncNextWindow == IterNextWindow /\ UNCHANGED <<name, now, stateVars, tfVars>>

SyncExhausted == IterExhausted /\ UNCHANGED <<name, now, stateVars, tfVars>>

SyncSubmit ==
    /\ it_pc = "run_job"
    /\ RunJobSubmit
    /\ UNCHANGED <<stateVars, paramVars, tfVars, iterVars>>

SyncSleep ==
    /\ it_pc = "run_job"
    /\ PollSleep(SyncElapses)
    /\ UNCHANGED <<stateVars, paramVars, tfVars, iterVars>>

SyncStartTimeout ==
    /\ PollStartTimeout
    /\ IterJobRaised
    /\ UNCHANGED <<stateVars, paramVars, tfVars>>

SyncFinishTimeout ==
    /\ PollFinishTimeout
    /\ IterJobRaised
    /\ UNCHANGED <<stateVars, paramVars, tfVars>>

SyncJobReturned ==
    /\ PollReturn(SyncElapses)
    /\ \E r \in ResultLists : IterJobReturned(r)
    /\ now' \in LaterNow
    /\ UNCHANGED <<name, jp_pc, since, until, windows>>
    /\ UNCHANGED <<stateVars, tfVars>>

\* a faulty step, for comparison: the date of every record is stored as the
\* cursor of the stream
SyncRecordStoring ==
    /\ IterRecord
    /\ state' = [k \in DOMAIN state \cup {name} |->
                    IF k = name
                    THEN ParseDate(DigitsValue(Head(results)["date_start"].s))
                    ELSE state[k]]
    /\ UNCHANGED <<start_date, snapshot, initial_get, advanced>>
    /\ UNCHANGED <<paramVars, tfVars>>

SyncRecord == IterRecord /\ UNCHANGED <<stateVars, paramVars, tfVars>>

SyncUpdate == IterUpdate /\ UNCHANGED <<stateVars, paramVars, tfVars>>

NextSync ==
    \/ SyncNextWindow
    \/ SyncExhausted
    \/ SyncSubmit
    \/ SyncSleep
    \/ SyncStartTimeout
    \/ SyncFinishTimeout
    \/ SyncJobReturned
    \/ SyncRecord
    \/ SyncUpdate

SpecSync == InitSync /\ [][NextSync]_vars

\* the places in out of the record messages and of the checkpoints of a window
RecordsAt(w) == {i \in 1..Len(out) : out[i].type = "RECORD" /\ out[i].window = w}
StatesAt(w) == {i \in 1..Len(out) : out[i].type = "STATE" /\ out[i].window = w}

\* the least date_start among the records of a window, as a day
LeastDateStart(w) ==
    SetMin({DigitsValue(out[i].record["date_start"].s) : i \in RecordsAt(w)})

\* C2: a window that gave at least one record gets exactly one checkpoint,
\* written after all its records and before any record of a later window, and
\* the date handed to the watermark is the least date_start of its records.
C2_CheckpointAfterRecords ==
    \A w \in drained :
       RecordsAt(w) # {} =>
          /\ Cardinality(StatesAt(w)) = 1
          /\ \A i \in RecordsAt(w), j \in StatesAt(w) : i < j
          /\ \A j \in StatesAt(w), i \in 1..Len(out) :
                (out[i].type = "RECORD" /\ out[i].window > w) => j < i
          /\ \E c \in Range(update_calls) :
                /\ c.window = w
                /\ c.stream = name
                /\ c.date.t = "str"
                /\ DigitsValue(c.date.s) = LeastDateStart(w)

\* the part of C2 the code keeps: the date handed over at line 293 is the least
\* date_start of the window's records
C2_LeastDateHandedOver ==
    \A w \in drained :
       RecordsAt(w) # {} =>
          \E c \in Range(update_calls) :
             /\ c.window = w
             /\ c.date.t = "str"
             /\ DigitsValue(c.date.s) = LeastDateStart(w)

\* C3: a window whose job gave no record makes no call to the watermark and
\* writes no checkpoint; the watermark is as it was and the iteration goes on.
C3_EmptyWindowNoop ==
    \A w \in drained :
       RecordsAt(w) = {} =>
          /\ \A c \in Range(update_calls) : c.window # w
          /\ StatesAt(w) = {}
          /\ State_get(name) = initial_get[name]
          /\ it_pc # "raised"

\* C7: every record message written is what transform_fields returns for the
\* raw result under the schema of the stream.
C7_RecordsValidated ==
    \A i \in 1..Len(out) :
       out[i].type = "RECORD" =>
          LET t == transform_fields(out[i].raw, tf_schema, tf_order).result
          IN  /\ t.returned
              /\ out[i].record = t.rtn

-----------------------------------------------------------------------------
(* The failure kinds of run_job.                                             *)

\* run_job has ended by raising one of its two timeouts
RunJobFailed == job_pc = "raised" /\ error \in {DidNotStart, DidNotComplete}

\* C11: the start timeout and the finish timeout are raised as two distinct
\* kinds of failure: the class of the exception raised for the one is never
\* the class raised for the other, so the class alone tells which it was.
C11_DistinctFailureKinds ==
    RunJobFailed =>
       /\ error = DidNotStart => error.class # DidNotComplete.class
       /\ error = DidNotComplete => error.class # DidNotStart.class

-----------------------------------------------------------------------------
(* Retrying.  The decorator of lines 230-234 names InsightsJobTimeout and    *)
(* max_tries=3, and it is put on job_params.                                 *)

\* line 233
max_tries == 3

\* the iteration of the stream has been ended by an exception
IterationFailed == it_pc = "raised"

\* C12: a window whose job ends in the start timeout is submitted again, up to
\* three submissions in all, before the failure leaves the iteration; a
\* failure of any other kind leaves it after the one submission.
C12_StartTimeoutRetried ==
    /\ submitted <= max_tries
    /\ (IterationFailed /\ error = DidNotStart) => submitted = max_tries
    /\ (IterationFailed /\ error # DidNotStart) => submitted <= 1

-----------------------------------------------------------------------------
(* The checkpoints of State.advance.                                         *)

\* C13: the snapshots advance returns are ordered per stream: a stream that a
\* snapshot names is named by every later snapshot, with a date that is not
\* earlier, whatever dates are offered and in whatever order.
C13_SnapshotsOrdered ==
    [][\A s \in Streams :
          s \in DOMAIN snapshot =>
             /\ s \in DOMAIN snapshot'
             /\ snapshot'[s] >= snapshot[s]]_vars

\* a snapshot returned for a date that is earlier than one advanced before:
\* it carries the newer date
C13_Witness ==
    \E s \in Streams :
       /\ s \in DOMAIN snapshot
       /\ Cardinality(advanced[s]) >= 2
       /\ \E d \in advanced[s] : d < snapshot[s]
       /\ snapshot[s] \in advanced[s]

-----------------------------------------------------------------------------
(* transform_fields and the schema it is given.                              *)

\* what a call on the schema as it was loaded gives
FirstOutcome == transform_fields(tf_row, tf_schema0, tf_order).result

\* C14: transform_fields leaves the schema as it was given, and a call on the
\* same record and schema has the outcome of the first such call, a record
\* that lacks a nullable field included.
C14_SchemaReadOnly ==
    tf_calls >= 1 =>
       /\ tf_schema = tf_schema0
       /\ tf_result = FirstOutcome

-----------------------------------------------------------------------------
(* What one advance call touches.                                            *)

\* C15: get(t) is the recorded cursor of t, or the start date when t has no
\* entry; the snapshot advance returns is the whole mapping as it is after the
\* call; and a call advance(s, d) leaves the entry and the cursor of every
\* stream other than s as they were.
C15_AdvanceFrame ==
    /\ [](\A t \in Streams :
             State_get(t) = IF t \in DOMAIN state
                            THEN state[t] \div TicksPerDay
                            ELSE start_date \div TicksPerDay)
    /\ [](snapshot # NoSnapshot =>
             /\ DOMAIN snapshot = DOMAIN state
             /\ \A t \in DOMAIN state : snapshot[t] = State_get(t))
    /\ [][\A t \in Streams :
             advanced'[t] = advanced[t] =>
                /\ (t \in DOMAIN state') <=> (t \in DOMAIN state)
                /\ State__get_next(t) = State__get(t)]_vars

\* a stream was advanced past its cursor while the other, never advanced, has
\* a persisted entry: the snapshot names both, the other with its old date
C15_Witness ==
    \E s, t \in Streams :
       /\ s # t
       /\ advanced[s] # {}
       /\ advanced[t] = {}
       /\ t \in DOMAIN state
       /\ DOMAIN snapshot = {s, t}
       /\ snapshot[s] > initial_get[s]
       /\ snapshot[t] = initial_get[t]
       /\ snapshot[t] # snapshot[s]

-----------------------------------------------------------------------------
(* Termination of run_job.                                                   *)

\* run_job has returned or raised
RunJobOver == job_pc \in {"returned", "raised"}

\* C16: run_job ends, by returning or by raising, whatever the remote job
\* reports, each sleep taking at least SleepSeconds of clock time: no poll
\* taken after the finish deadline leaves the loop going, and every call is
\* over at some time.
C16_RunJobTerminates ==
    /\ [](job_pc = "loop" /\ Polled =>
             duration <= INSIGHTS_MAX_WAIT_TO_FINISH_SECONDS)
    /\ <>RunJobOver

\* a job that read 'Job Running' at 50 percent at every poll up to the finish
\* deadline was ended by the first poll past it
C16_Witness ==
    /\ job_pc = "raised"
    /\ error = DidNotComplete
    /\ status = "Job Running"
    /\ percent_complete = 50
    /\ duration > INSIGHTS_MAX_WAIT_TO_FINISH_SECONDS
    /\ clock > 2 * SleepSeconds

-----------------------------------------------------------------------------
(* Completion and the deadlines.                                             *)

\* C17: a poll that reads 'Job Completed' makes run_job return the job and
\* raise no timeout, whatever the time since submission and whatever the
\* percentage read at that poll.
C17_CompletedAlwaysReturns ==
    (Polled /\ status = JobCompleted) =>
       /\ job_pc = "returned"
       /\ error = NoError

-----------------------------------------------------------------------------
(* The finish timeout in a sync.                                             *)

\* C18: a window whose job ends in the finish timeout has had exactly one job
\* submitted; the failure ends run_job and the iteration of the stream, and no
\* job is submitted after it.
C18_FinishTimeoutNotRetried ==
    /\ [](error = DidNotComplete =>
             /\ submitted = 1
             /\ job_pc = "raised"
             /\ IterationFailed)
    /\ [][error = DidNotComplete =>
             /\ submitted' = submitted
             /\ windows' = windows]_vars

\* the job of the first window was polled past the finish deadline at 50
\* percent: one submission, and the iteration is over with nothing written
C18_Witness ==
    /\ error = DidNotComplete
    /\ IterationFailed
    /\ submitted = 1
    /\ Len(windows) = 1
    /\ percent_complete = 50
    /\ out = <<>>

-----------------------------------------------------------------------------
(* When a sync touches the watermark.                                        *)

\* the step of line 293: the results of the window are drained
WindowDrained == it_pc = "results" /\ results = <<>>

\* C19: the watermark is changed by no step but the one that ends a drained
\* window: polling a job and writing the records of a window leave it as it
\* was.  When run_job fails, the iteration of the stream is over: the
\* watermark is what it was after the last window that was completed (none
\* was, so what the sync started from), and no job is submitted, no window
\* begun and no message written after that.
C19_WatermarkOnlyAtCompletion ==
    /\ [][(state' # state \/ start_date' # start_date) => WindowDrained]_vars
    /\ [](RunJobFailed =>
             /\ IterationFailed
             /\ drained = {}
             /\ \A s \in Streams : State_get(s) = initial_get[s]
             /\ \A i \in 1..Len(out) : out[i].type # "STATE")
    /\ [][RunJobFailed => UNCHANGED <<state, submitted, windows, out>>]_vars

\* the stream had a persisted cursor and the job of its window never started:
\* the iteration is over and the cursor is the persisted one
C19_Witness ==
    /\ RunJobFailed
    /\ error = DidNotStart
    /\ IterationFailed
    /\ name \in DOMAIN state
    /\ State_get(name) = initial_get[name]
    /\ submitted = 1
    /\ duration > INSIGHTS_MAX_WAIT_TO_START_SECONDS

-----------------------------------------------------------------------------
(* The watermark over the windows of a sync.                                 *)

\* the records of window w are there and every one is dated at its since
DatedAtSince(w) ==
    /\ RecordsAt(w) # {}
    /\ \A i \in RecordsAt(w) :
          DigitsValue(out[i].record["date_start"].s) = windows[w].since

\* the watermark the sync started from, as a day
W0 == initial_get[name]

\* C20: in a sync whose windows each give a record dated at the since of the
\* window, the watermark after the window numbered k (from 0) is the later of
\* the day W0 the sync started from and W0 - 28 + k, the date handed over is
\* that since, and the sync goes on to the next window.
C20_WatermarkLagsLookback ==
    \A w \in drained :
       DatedAtSince(w) =>
          /\ windows[w].since = W0 - LookbackDays + (w - 1)
          /\ \E c \in Range(update_calls) :
                /\ c.window = w
                /\ c.date.t = "str"
                /\ DigitsValue(c.date.s) = windows[w].since
          /\ State_get(name) = SetMax({W0, W0 - LookbackDays + (w - 1)})
          /\ ~IterationFailed

\* what of C20 the code keeps for the one window it reaches
C20_FirstWindowNoop ==
    \A w \in drained :
       DatedAtSince(w) =>
          /\ windows[w].since = W0 - LookbackDays + (w - 1)
          /\ \E c \in Range(update_calls) :
                /\ c.window = w
                /\ c.date.t = "str"
                /\ DigitsValue(c.date.s) = windows[w].since
          /\ State_get(name) = SetMax({W0, W0 - LookbackDays + (w - 1)})

====
